---- MODULE Spec2Model ----
(***************************************************************************)
(* Model of DenoLoaderPlugin (src/mod.ts): the resolution cache, the       *)
(* in-flight promise map, the discovery client and the three plugin hooks  *)
(* (buildStart, resolveId, load) run as interleaved asynchronous tasks on  *)
(* one JavaScript event loop.                                              *)
(*                                                                         *)
(* Strings are sequences of one-character strings, so that startsWith,     *)
(* includes and replace("file://", "") are computed as the code computes   *)
(* them.                                                                   *)
(***************************************************************************)
EXTENDS Integers, Sequences, FiniteSets, TLC

(***************************************************************************)
(* Bounds of the model.                                                    *)
(***************************************************************************)
\* number of hook calls the host makes on one engine instance
MaxTasks == 2

(***************************************************************************)
(* String primitives of the JavaScript runtime.                            *)
(***************************************************************************)
StartsWith(s, p) ==
    /\ Len(s) >= Len(p)
    /\ SubSeq(s, 1, Len(p)) = p

\* positions at which pat occurs in s
Occurrences(s, pat) ==
    { i \in 1..(Len(s) - Len(pat) + 1) : SubSeq(s, i, i + Len(pat) - 1) = pat }

Includes(s, pat) == Occurrences(s, pat) # {}

Min(S) == CHOOSE x \in S : \A y \in S : x <= y

\* String.prototype.replace with a string pattern: the first occurrence only
Replace(s, pat, rep) ==
    IF Occurrences(s, pat) = {} THEN s
    ELSE LET i == Min(Occurrences(s, pat))
         IN  SubSeq(s, 1, i - 1) \o rep \o SubSeq(s, i + Len(pat), Len(s))

FilePrefix == <<"f", "i", "l", "e", ":", "/", "/">>

\* a mutated projection that stores every key as it is
StripFileKeep(specifier) == specifier

\* specifier.replace("file://", "")
StripFile(specifier) == Replace(specifier, FilePrefix, <<>>)

(***************************************************************************)
(* The specifiers of the model.                                            *)
(***************************************************************************)
JsrA   == <<"j", "s", "r", ":", "a">>
HttpsB == <<"h", "t", "t", "p", "s", ":", "/", "/", "b", "/">>
FileC  == <<"f", "i", "l", "e", ":", "/", "/", "/", "c">>
NodeX  == <<"n", "o", "d", "e", ":", "x">>
NpmP   == <<"n", "p", "m", ":", "p">>
BareL  == <<"l">>

\* specifiers the discovery service is asked about or reports
GraphSpecs == {JsrA, HttpsB, FileC}

\* every key the resolution cache can be read or written under
Keys == GraphSpecs \cup { StripFile(s) : s \in GraphSpecs }

(***************************************************************************)
(* Media types and module types (the two enums).                           *)
(***************************************************************************)
DenoMediaType ==
    { "JavaScript", "Mjs", "Cjs", "JSX", "TypeScript", "Mts", "Cts", "Dts",
      "Dmts", "Dcts", "TSX", "Json", "Wasm", "TsBuildInfo", "SourceMap",
      "Unknown" }

ModuleType == { "js", "jsx", "ts", "tsx", "json", "binary", "text", "empty" }

\* a mutated mapper whose first case lacks two of its labels
mapMediaTypeShortCase(media_type) ==
    CASE media_type = "JavaScript" -> "js"
      [] media_type = "JSX" -> "jsx"
      [] media_type \in {"TypeScript", "Mts", "Cts", "Dts", "Dmts", "Dcts"} -> "ts"
      [] media_type = "TSX" -> "tsx"
      [] media_type = "Json" -> "json"
      [] media_type = "Wasm" -> "binary"
      [] media_type \in {"TsBuildInfo", "SourceMap"} -> "text"
      [] OTHER -> "empty"

mapMediaType(media_type) ==
    CASE media_type \in {"JavaScript", "Mjs", "Cjs"} -> "js"
      [] media_type = "JSX" -> "jsx"
      [] media_type \in {"TypeScript", "Mts", "Cts", "Dts", "Dmts", "Dcts"} -> "ts"
      [] media_type = "TSX" -> "tsx"
      [] media_type = "Json" -> "json"
      [] media_type = "Wasm" -> "binary"
      [] media_type \in {"TsBuildInfo", "SourceMap"} -> "text"
      [] OTHER -> "empty"

(***************************************************************************)
(* Graph reports of the discovery service (DenoInfoJsonV1).                *)
(***************************************************************************)
LocalL == <<"/", "l">>

\* an optional string that is undefined (or empty): falsy in the code
Undefined == <<>>

\* a record with specifier, local? and mediaType (asserted / ESM modules)
EsmRecord(s, l, m) ==
    [fields |-> {"specifier", "local", "mediaType"}, specifier |-> s,
     local |-> l, mediaType |-> m]

\* a record of a registry package: specifier and npmPackage, no media type
NpmRecord(s) ==
    [fields |-> {"specifier", "npmPackage"}, specifier |-> s,
     local |-> Undefined, mediaType |-> "Unknown"]

ModuleB     == EsmRecord(HttpsB, LocalL, "JavaScript")
ModuleBJson == EsmRecord(HttpsB, Undefined, "Json")
ModuleC     == EsmRecord(FileC, LocalL, "TypeScript")
ModuleP     == NpmRecord(NpmP)

\* info.modules: the module graph holds one record per specifier
ModuleLists ==
    { <<>>, <<ModuleB>>, <<ModuleBJson>>, <<ModuleC>>, <<ModuleP>>,
      <<ModuleB, ModuleC>>, <<ModuleP, ModuleBJson>> }

\* redirects: Record<string, string>, as a set of <<source, target>> pairs
RedirectMaps == { {}, {<<JsrA, HttpsB>>} }

Reports == [redirects : RedirectMaps, modules : ModuleLists]

(***************************************************************************)
(* The resolution cache (resolveDenoInfoCache) and its projection.         *)
(***************************************************************************)
NoEntry == [present |-> FALSE]

Entry(localPath, redirected, moduleType) ==
    [present |-> TRUE, localPath |-> localPath, redirected |-> redirected,
     moduleType |-> moduleType]

EmptyCache == [k \in Keys |-> NoEntry]

\* the condition under which a module record is projected
IsTypedModule(details) ==
    /\ "specifier" \in details.fields
    /\ "npm_package" \notin details.fields
    /\ "mediaType" \in details.fields

\* a mutated projection that stores a redirected module under its aliases only
KeysOfAliasesOnly(details, redirects) ==
    LET aliases == { StripFile(r[1]) :
                        r \in { q \in redirects : q[2] = details.specifier } }
    IN  IF aliases = {} THEN {StripFile(details.specifier)} ELSE aliases

\* the keys one module record is stored under
KeysOf(details, redirects) ==
    {StripFile(details.specifier)} \cup
    { StripFile(r[1]) : r \in { q \in redirects : q[2] = details.specifier } }

\* one iteration of the loop over info.modules
cacheModule(cache, details, redirects) ==
    IF IsTypedModule(details)
    THEN LET result == Entry(details.local, details.specifier,
                             mapMediaType(details.mediaType))
         IN  [k \in Keys |-> IF k \in KeysOf(details, redirects)
                             THEN result ELSE cache[k]]
    ELSE cache

\* a mutated projection that returns after the first module record
cacheModulesFirstOnly(cache, modules, redirects) ==
    IF modules = <<>> THEN cache
    ELSE cacheModule(cache, Head(modules), redirects)

RECURSIVE cacheModules(_, _, _)
cacheModules(cache, modules, redirects) ==
    IF modules = <<>> THEN cache
    ELSE cacheModules(cacheModule(cache, Head(modules), redirects),
                      Tail(modules), redirects)

cacheDenoInfo(cache, info) == cacheModules(cache, info.modules, info.redirects)

(***************************************************************************)
(* State of one DenoLoaderPlugin instance and of the tasks running on it.  *)
(***************************************************************************)
VARIABLES
    resolveDenoInfoCache,        \* Map<string, DenoResolveResult>
    resolvePromises,             \* Map<string, Promise>: key -> promise id, 0 = none
    resolveModuleSpecifierCache, \* Map<string, string | null>
    entryPoints,                 \* constructor argument
    denoInfoCache,               \* constructor argument: the seed report, if any
    importMap,                   \* constructor argument, resolved
    promises,                    \* the computations started by denoResolve
    calls,                       \* the calls of denoResolve, in order of issue
    tasks,                       \* the hook calls of the host, in order of issue
    importMapCalls,              \* calls of resolveModuleSpecifier, per cache key
    exited                       \* the external process that ended in this step

vars == <<resolveDenoInfoCache, resolvePromises, resolveModuleSpecifierCache,
          entryPoints, denoInfoCache, importMap, promises, calls, tasks,
          importMapCalls, exited>>

engine == <<resolveDenoInfoCache, resolvePromises, promises, calls>>
config == <<entryPoints, denoInfoCache, importMap>>
imcache == <<resolveModuleSpecifierCache, importMapCalls>>

(***************************************************************************)
(* Constructor arguments.                                                  *)
(***************************************************************************)
NoSeed == [present |-> FALSE]

Seed(info) == [present |-> TRUE, info |-> info]

\* a report as `deno info` prints it: jsr:a redirects to a remote module,
\* which imports a local file
SeedReport ==
    [redirects |-> {<<JsrA, HttpsB>>},
     modules |-> <<ModuleB, ModuleC>>]

SeedChoices == {NoSeed, Seed(SeedReport)}

EntryPointChoices == { <<>>, <<JsrA, HttpsB>>, <<FileC>> }

(***************************************************************************)
(* URLs and the import map (resolveFromImportMap and what it calls).       *)
(***************************************************************************)
RelC    == <<".", "/", "c">>
FileD   == <<"f", "i", "l", "e", ":", "/", "/", "/", "d">>
VendorM == <<"/", "n", "o", "d", "e", "_", "m", "o", "d", "u", "l", "e", "s", "/", "m">>
NodeModules == <<"n", "o", "d", "e", "_", "m", "o", "d", "u", "l", "e", "s">>
BaseUrl == <<"f", "i", "l", "e", ":", "/", "/", "/">>

\* URL.canParse of a string without a base: it has a scheme
CanParse(s) == s # <<>> /\ ~StartsWith(s, <<"/">>) /\ ~StartsWith(s, <<".">>)
                        /\ Includes(s, <<":">>)

\* toFileUrl of an absolute POSIX path
toFileUrl(path) == FilePrefix \o path

Max(S) == CHOOSE x \in S : \A y \in S : x >= y

\* new URL(specifier, base).toString() for "/path" and "./path" against a
\* file URL: the path replaces the base's path, or its last segment
UrlResolve(specifier, base) ==
    IF StartsWith(specifier, <<"/">>) THEN FilePrefix \o specifier
    ELSE SubSeq(base, 1, Max(Occurrences(base, <<"/">>)))
            \o SubSeq(specifier, 3, Len(specifier))

\* new URL(u).pathname of a file URL with an empty host
Pathname(u) == SubSeq(u, Len(FilePrefix) + 1, Len(u))

ImUndefined == [st |-> "undefined"]
ImNull == [st |-> "null"]
ImString(v) == [st |-> "string", value |-> v]

ImportMapChoices == {"empty", "mapped", "scoped"}

\* resolveModuleSpecifier(id, importMap, importer_url) of the import-map
\* library: a mapped bare identifier, a URL as it is, or an exception
resolveModuleSpecifier(id, map, importer_url) ==
    IF id = BareL
    THEN IF map = "mapped" \/ (map = "scoped" /\ importer_url = FileD)
         THEN ImString(JsrA)
         ELSE [st |-> "throws"]
    ELSE ImString(id)

\* the URL the importer stands for
ImporterUrl(importer) ==
    IF importer # Undefined
    THEN IF CanParse(importer) THEN importer ELSE toFileUrl(importer)
    ELSE BaseUrl

\* what resolveFromImportMap(id, importer) computes when the cache misses
ImportMapValue(id, importer, map) ==
    LET r == resolveModuleSpecifier(id, map, ImporterUrl(importer))
    IN  IF r.st = "throws" THEN ImNull ELSE r

\* a mutated test of the cached value: if (cacheValue)
CachedTruthy(cacheValue) == cacheValue.st = "string"

\* cacheValue !== undefined
Cached(cacheValue) == cacheValue # ImUndefined

\* what resolveFromImportMap(id, importer) returns from the cache `c`
resolveFromImportMap(c, id, importer, map) ==
    IF Cached(c[<<id, importer>>]) THEN c[<<id, importer>>]
    ELSE ImportMapValue(id, importer, map)

\* the specifier resolveId dispatches on: relative rewrite, then import map
RewriteRelative(specifier, importer) ==
    IF (StartsWith(specifier, <<".">>) \/ StartsWith(specifier, <<"/">>))
       /\ importer # Undefined /\ ~Includes(importer, NodeModules)
    THEN UrlResolve(specifier, ImporterUrl(importer))
    ELSE specifier

UsesImportMap(id) == ~StartsWith(id, <<".">>) /\ ~StartsWith(id, <<"/">>)

MaybeResolved(c, specifier, importer, map) ==
    LET id == RewriteRelative(specifier, importer)
    IN  IF UsesImportMap(id)
        THEN LET v == resolveFromImportMap(c, id, importer, map)
             IN  IF v.st = "string" THEN v.value ELSE id
        ELSE id

\* extractPackageAndPath followed by the rebuilding of the bare import, for a
\* specifier "scheme:name" without version or path: the name
NpmPackage(specifier) ==
    SubSeq(specifier, Min(Occurrences(specifier, <<":">>)) + 1, Len(specifier))

(***************************************************************************)
(* denoResolve: the cache check, the in-flight check and the start of a    *)
(* computation, all before the first suspension.                           *)
(***************************************************************************)
\* a mutated denoResolve that never looks at resolvePromises
denoResolveHowNoJoin(cache, inflight, specifier) ==
    IF cache[specifier].present THEN "hit" ELSE "started"

\* a mutated denoResolve that never looks at the cache
denoResolveHowNoCache(cache, inflight, specifier) ==
    IF inflight[specifier] # 0 THEN "joined" ELSE "started"

\* which of its three paths denoResolve(specifier) takes
denoResolveHow(cache, inflight, specifier) ==
    IF cache[specifier].present THEN "hit"
    ELSE IF inflight[specifier] # 0 THEN "joined"
    ELSE "started"

Pending(specifier) ==
    [specifier |-> specifier, state |-> "pending", value |-> NoEntry,
     error |-> ""]

\* the calls for `specifier` that have handed an entry to their caller
Delivered(callsNow, specifier) ==
    { d \in 1..Len(callsNow) :
        /\ callsNow[d].specifier = specifier
        /\ callsNow[d].delivered
        /\ callsNow[d].got.present }

\* denoResolve(specifier) called by task t, reading the cache `cache`;
\* `callsNow` is the log of calls to extend
DenoResolve(cache, callsNow, specifier, t) ==
    LET how == denoResolveHow(cache, resolvePromises, specifier)
        p == CASE how = "started" -> Len(promises) + 1
               [] how = "joined" -> resolvePromises[specifier]
               [] OTHER -> 0
    IN  /\ promises' = IF how = "started"
                       THEN Append(promises, Pending(specifier))
                       ELSE promises
        /\ resolvePromises' = IF how = "started"
                              THEN [resolvePromises EXCEPT ![specifier] = p]
                              ELSE resolvePromises
        /\ calls' = Append(callsNow,
                       [specifier |-> specifier, task |-> t, how |-> how,
                        promise |-> p,
                        value |-> IF how = "hit" THEN cache[specifier] ELSE NoEntry,
                        after |-> Delivered(callsNow, specifier),
                        delivered |-> FALSE, got |-> NoEntry, err |-> ""])

\* the promise a call returned has settled
CallSettled(c) ==
    IF calls[c].how = "hit" THEN TRUE
    ELSE promises[calls[c].promise].state # "pending"

CallError(c) ==
    IF calls[c].how = "hit" THEN "" ELSE promises[calls[c].promise].error

CallValue(c) ==
    IF calls[c].how = "hit" THEN calls[c].value
    ELSE promises[calls[c].promise].value

\* the log of calls once call c has resumed its caller
Deliver(c) ==
    [calls EXCEPT ![c].delivered = TRUE, ![c].got = CallValue(c),
                  ![c].err = CallError(c)]

(***************************************************************************)
(* denoInfo and the rest of the computation: the external process ends,    *)
(* its output is parsed and projected, the promise settles.                *)
(***************************************************************************)
\* what the external process can do: command.output() rejects, or the
\* process exits with a code and a standard output that parses or not
Outcomes ==
    { [spawned |-> FALSE, exit |-> 0, json |-> FALSE, info |-> SeedReport] }
    \cup [spawned : {TRUE}, exit : {0, 1}, json : {FALSE}, info : {SeedReport}]
    \cup [spawned : {TRUE}, exit : {0, 1}, json : {TRUE}, info : Reports]

\* no process ended in this step
NoProcess == [promise |-> 0]

\* the process of computation p ended in this step, and how
Exited(p, out) ==
    [promise |-> p, spawned |-> out.spawned, exit |-> out.exit,
     json |-> out.json, info |-> out.info]

\* denoInfo throws: command.output() rejected or JSON.parse threw
denoInfoFails(out) == ~out.spawned \/ ~out.json

\* a mutated computation without its finally block
SettledInflightNever(inflight, specifier, failed) == inflight

\* a mutated computation that removes its in-flight entry on success only
SettledInflightKeepOnError(inflight, specifier, failed) ==
    IF failed THEN inflight ELSE [inflight EXCEPT ![specifier] = 0]

\* finally { this.resolvePromises.delete(specifier) }
SettledInflight(inflight, specifier, failed) ==
    [inflight EXCEPT ![specifier] = 0]

\* a mutated computation that runs the discovery again when it fails
ComputationRetry(cached, failed) ==
    IF failed
    THEN [state |-> "pending", value |-> NoEntry, error |-> ""]
    ELSE IF ~cached.present
    THEN [state |-> "rejected", value |-> NoEntry,
          error |-> "CacheConsistencyError"]
    ELSE [state |-> "fulfilled", value |-> cached, error |-> ""]

\* a mutated computation without the check of the re-read entry
ComputationNoCheck(cached, failed) ==
    IF failed
    THEN [state |-> "rejected", value |-> NoEntry, error |-> "DiscoveryError"]
    ELSE [state |-> "fulfilled", value |-> cached, error |-> ""]

\* how the computation ends: denoInfo threw, or the re-read of the cache
\* found nothing, or it returns the entry
Computation(cached, failed) ==
    IF failed
    THEN [state |-> "rejected", value |-> NoEntry, error |-> "DiscoveryError"]
    ELSE IF ~cached.present
    THEN [state |-> "rejected", value |-> NoEntry,
          error |-> "CacheConsistencyError"]
    ELSE [state |-> "fulfilled", value |-> cached, error |-> ""]

\* the external process of computation p ends with `out`: denoInfo returns
\* or throws, the report is projected, the entry is re-read, the promise
\* settles and the in-flight entry is removed
Settle(p, out) ==
    /\ promises[p].state = "pending"
    /\ LET specifier == promises[p].specifier
           failed == denoInfoFails(out)
           cache == IF failed THEN resolveDenoInfoCache
                    ELSE cacheDenoInfo(resolveDenoInfoCache, out.info)
           end == Computation(cache[specifier], failed)
       IN  /\ resolveDenoInfoCache' = cache
           /\ promises' =
                [promises EXCEPT ![p] =
                    [specifier |-> specifier, state |-> end.state,
                     value |-> end.value, error |-> end.error]]
           /\ resolvePromises' =
                SettledInflight(resolvePromises, specifier,
                                end.state = "rejected")
    /\ exited' = Exited(p, out)
    /\ UNCHANGED <<calls, tasks, config, imcache>>

(***************************************************************************)
(* Tasks: one per hook call of the host.                                   *)
(***************************************************************************)
NoResult == [kind |-> "none"]
ReturnedUndefined == [kind |-> "undefined"]
Resolved(id, external) == [kind |-> "resolved", id |-> id, external |-> external]
Loaded(code, moduleType) == [kind |-> "loaded", code |-> code, moduleType |-> moduleType]

\* `branch` is the branch of its dispatch the hook took; `prior` is the set
\* of branches through which resolveId had returned the task's id before;
\* `read` is the text load has read from the local artifact
Task(hook, specifier, importer, pc, call, i, result, branch, prior) ==
    [hook |-> hook, specifier |-> specifier, importer |-> importer, pc |-> pc,
     call |-> call, i |-> i, result |-> result, error |-> "", branch |-> branch,
     prior |-> prior, read |-> Undefined]

Waiting(t, hook) ==
    /\ t \in 1..Len(tasks)
    /\ tasks[t].hook = hook
    /\ tasks[t].pc = "await"
    /\ CallSettled(tasks[t].call)

(***************************************************************************)
(* buildStart                                                              *)
(***************************************************************************)
\* a mutated buildStart that ignores the seed report
SeededCacheNoSeed(cache, seed) == cache

\* if (this.denoInfoCache) this.cacheDenoInfo(this.denoInfoCache)
SeededCache(cache, seed) ==
    IF seed.present THEN cacheDenoInfo(cache, seed.info) ELSE cache

\* the hook is called: the seed is projected and the first entry point is
\* requested, up to the first await
BuildStart ==
    /\ exited' = NoProcess
    /\ Len(tasks) < MaxTasks
    /\ LET cache == SeededCache(resolveDenoInfoCache, denoInfoCache)
       IN  /\ resolveDenoInfoCache' = cache
           /\ IF entryPoints = <<>>
              THEN /\ tasks' = Append(tasks, Task("buildStart", <<>>, Undefined,
                                                  "done", 0, 0, ReturnedUndefined,
                                                  "", {}))
                   /\ UNCHANGED <<resolvePromises, promises, calls>>
              ELSE /\ DenoResolve(cache, calls, entryPoints[1], Len(tasks) + 1)
                   /\ tasks' = Append(tasks, Task("buildStart", <<>>, Undefined,
                                                  "await", Len(calls) + 1, 1,
                                                  NoResult, "", {}))
    /\ UNCHANGED <<config, imcache>>

\* for (const entry of this.entryPoints): entry i was the last one
LastEntry(i, entries) == i = Len(entries)

\* the awaited denoResolve(entry) has settled: the loop goes on, or ends
BuildStartResume(t) ==
    /\ exited' = NoProcess
    /\ Waiting(t, "buildStart")
    /\ LET c == tasks[t].call
           i == tasks[t].i
       IN  IF CallError(c) # ""
           THEN /\ tasks' = [tasks EXCEPT ![t].pc = "failed",
                                          ![t].error = CallError(c)]
                /\ calls' = Deliver(c)
                /\ UNCHANGED <<resolvePromises, promises>>
           ELSE IF LastEntry(i, entryPoints)
           THEN /\ tasks' = [tasks EXCEPT ![t].pc = "done",
                                          ![t].result = ReturnedUndefined]
                /\ calls' = Deliver(c)
                /\ UNCHANGED <<resolvePromises, promises>>
           ELSE /\ DenoResolve(resolveDenoInfoCache, Deliver(c), entryPoints[i + 1], t)
                /\ tasks' = [tasks EXCEPT ![t].call = Len(calls) + 1,
                                          ![t].i = i + 1]
    /\ UNCHANGED <<resolveDenoInfoCache, config, imcache>>

(***************************************************************************)
(* resolveId                                                               *)
(***************************************************************************)
Node  == <<"n", "o", "d", "e", ":">>
File  == <<"f", "i", "l", "e", ":">>
Jsr   == <<"j", "s", "r", ":">>
Npm   == <<"n", "p", "m", ":">>
Http  == <<"h", "t", "t", "p", ":">>
Https == <<"h", "t", "t", "p", "s", ":">>

\* a mutated dispatch that resolves https: specifiers like jsr: specifiers
SchemeResolveRemote(maybe_resolved) ==
    CASE StartsWith(maybe_resolved, Node) -> "node"
      [] StartsWith(maybe_resolved, File) -> "file"
      [] StartsWith(maybe_resolved, Jsr) \/ StartsWith(maybe_resolved, Https) -> "jsr"
      [] StartsWith(maybe_resolved, Npm) -> "npm"
      [] StartsWith(maybe_resolved, Http) -> "http"
      [] OTHER -> "none"

\* the branch of resolveId a specifier takes, first match first
Scheme(maybe_resolved) ==
    CASE StartsWith(maybe_resolved, Node) -> "node"
      [] StartsWith(maybe_resolved, File) -> "file"
      [] StartsWith(maybe_resolved, Jsr) -> "jsr"
      [] StartsWith(maybe_resolved, Npm) -> "npm"
      [] StartsWith(maybe_resolved, Http) \/ StartsWith(maybe_resolved, Https) -> "http"
      [] OTHER -> "none"

\* the hook is called: up to its first await, or to its return
ResolveId(specifier, importer) ==
    /\ exited' = NoProcess
    /\ Len(tasks) < MaxTasks
    /\ LET id == RewriteRelative(specifier, importer)
           key == <<id, importer>>
           miss == UsesImportMap(id) /\ ~Cached(resolveModuleSpecifierCache[key])
           maybe_resolved == MaybeResolved(resolveModuleSpecifierCache,
                                           specifier, importer, importMap)
           scheme == Scheme(maybe_resolved)
       IN  /\ resolveModuleSpecifierCache' =
                IF miss
                THEN [resolveModuleSpecifierCache EXCEPT
                        ![key] = ImportMapValue(id, importer, importMap)]
                ELSE resolveModuleSpecifierCache
           /\ importMapCalls' =
                IF miss THEN [importMapCalls EXCEPT ![key] = @ + 1]
                ELSE importMapCalls
           /\ IF scheme = "jsr"
              THEN /\ DenoResolve(resolveDenoInfoCache, calls, maybe_resolved, Len(tasks) + 1)
                   /\ tasks' = Append(tasks, Task("resolveId", specifier, importer,
                                                  "await", Len(calls) + 1, 0,
                                                  NoResult, scheme, {}))
              ELSE /\ UNCHANGED <<resolvePromises, promises, calls>>
                   /\ tasks' = Append(tasks,
                        Task("resolveId", specifier, importer,
                             IF scheme = "npm" THEN "host" ELSE "done", 0, 0,
                             CASE scheme = "node" -> Resolved(maybe_resolved, TRUE)
                               [] scheme = "file" -> Resolved(Pathname(maybe_resolved), FALSE)
                               [] scheme = "http" -> Resolved(maybe_resolved, FALSE)
                               [] scheme = "npm" -> NoResult
                               [] OTHER -> ReturnedUndefined,
                             scheme, {}))
    /\ UNCHANGED <<resolveDenoInfoCache, config>>

\* the awaited denoResolve(maybe_resolved) has settled
ResolveIdResume(t) ==
    /\ exited' = NoProcess
    /\ Waiting(t, "resolveId")
    /\ LET c == tasks[t].call
       IN  /\ calls' = Deliver(c)
           /\ tasks' = IF CallError(c) # ""
                       THEN [tasks EXCEPT ![t].pc = "failed",
                                          ![t].error = CallError(c)]
                       ELSE [tasks EXCEPT ![t].pc = "done",
                                          ![t].result =
                                             Resolved(CallValue(c).redirected, FALSE)]
    /\ UNCHANGED <<resolveDenoInfoCache, resolvePromises, promises, config, imcache>>

\* what the host's own resolution of a package can return
HostResolutions == { ReturnedUndefined, Resolved(VendorM, FALSE) }

\* the awaited context.resolve(npm_package, ...) has settled
ResolveIdHost(t, res) ==
    /\ exited' = NoProcess
    /\ t \in 1..Len(tasks)
    /\ tasks[t].hook = "resolveId"
    /\ tasks[t].pc = "host"
    /\ tasks' = [tasks EXCEPT ![t].pc = "done", ![t].result = res]
    /\ UNCHANGED <<engine, config, imcache>>

(***************************************************************************)
(* load                                                                    *)
(***************************************************************************)
ExportDefault ==
    <<"e", "x", "p", "o", "r", "t", " ", "d", "e", "f", "a", "u", "l", "t", " ">>

\* contents of the local artifact
Contents == { <<"{", "}">> }

Handled(id) ==
    StartsWith(id, Jsr) \/ StartsWith(id, Http) \/ StartsWith(id, Https)

\* the branches of resolveId that have returned `id` to the host
ReturnedBy(id) ==
    { tasks[r].branch : r \in { q \in 1..Len(tasks) :
                                  /\ tasks[q].hook = "resolveId"
                                  /\ tasks[q].pc = "done"
                                  /\ tasks[q].result.kind = "resolved"
                                  /\ tasks[q].result.id = id } }

\* the hook is called: up to its first await, or to its return
Load(id) ==
    /\ exited' = NoProcess
    /\ Len(tasks) < MaxTasks
    /\ IF Handled(id)
       THEN /\ DenoResolve(resolveDenoInfoCache, calls, id, Len(tasks) + 1)
            /\ tasks' = Append(tasks, Task("load", id, Undefined, "await",
                                           Len(calls) + 1, 0, NoResult,
                                           "handled", ReturnedBy(id)))
       ELSE /\ UNCHANGED <<resolvePromises, promises, calls>>
            /\ tasks' = Append(tasks, Task("load", id, Undefined, "done", 0, 0,
                                           ReturnedUndefined, "none",
                                           ReturnedBy(id)))
    /\ UNCHANGED <<resolveDenoInfoCache, config, imcache>>

\* the cache after load has thrown for want of a local path
LoadFailureCache(cache, id) == cache

\* the awaited denoResolve(id) has settled
LoadResume(t) ==
    /\ exited' = NoProcess
    /\ Waiting(t, "load")
    /\ LET c == tasks[t].call
           cached == CallValue(c)
       IN  /\ calls' = Deliver(c)
           /\ IF CallError(c) # ""
              THEN /\ tasks' = [tasks EXCEPT ![t].pc = "failed",
                                             ![t].error = CallError(c)]
                   /\ UNCHANGED resolveDenoInfoCache
              ELSE IF cached.localPath = Undefined
              THEN /\ tasks' = [tasks EXCEPT ![t].pc = "failed",
                                             ![t].error = "MissingArtifactError"]
                   /\ resolveDenoInfoCache' =
                        LoadFailureCache(resolveDenoInfoCache, tasks[t].specifier)
              ELSE /\ tasks' = [tasks EXCEPT ![t].pc = "reading"]
                   /\ UNCHANGED resolveDenoInfoCache
    /\ UNCHANGED <<resolvePromises, promises, config, imcache>>

\* a mutated load that returns the artifact as it is, whatever its kind
LoadResultRaw(cached, content) == Loaded(content, cached.moduleType)

\* what load returns for the entry `cached` once it has read `content`
LoadResult(cached, content) ==
    Loaded(IF cached.moduleType = "json"
           THEN ExportDefault \o content ELSE content,
           IF cached.moduleType = "json" THEN "js" ELSE cached.moduleType)

\* the awaited Deno.readTextFile(localPath) has settled with `content`
LoadRead(t, content) ==
    /\ exited' = NoProcess
    /\ t \in 1..Len(tasks)
    /\ tasks[t].hook = "load"
    /\ tasks[t].pc = "reading"
    /\ tasks' = [tasks EXCEPT
                    ![t].pc = "done",
                    ![t].read = content,
                    ![t].result = LoadResult(calls[tasks[t].call].got, content)]
    /\ UNCHANGED <<engine, config, imcache>>

\* Deno.readTextFile(localPath) has rejected
LoadReadFails(t) ==
    /\ exited' = NoProcess
    /\ t \in 1..Len(tasks)
    /\ tasks[t].hook = "load"
    /\ tasks[t].pc = "reading"
    /\ tasks' = [tasks EXCEPT ![t].pc = "failed", ![t].error = "ReadError"]
    /\ UNCHANGED <<engine, config, imcache>>

(***************************************************************************)
(* The specification.                                                      *)
(***************************************************************************)
\* the calls of resolveId the host makes
ResolveCalls == { <<JsrA, Undefined>>, <<HttpsB, Undefined>> }

ImKeys ==
    { <<RewriteRelative(rc[1], rc[2]), rc[2]>> : rc \in ResolveCalls }

\* the ids the host asks load for
LoadIds == {HttpsB}

Init ==
    /\ resolveDenoInfoCache = EmptyCache
    /\ resolvePromises = [k \in Keys |-> 0]
    /\ resolveModuleSpecifierCache = [k \in ImKeys |-> ImUndefined]
    /\ importMapCalls = [k \in ImKeys |-> 0]
    /\ entryPoints \in EntryPointChoices
    /\ denoInfoCache \in SeedChoices
    /\ importMap = "mapped"
    /\ promises = <<>>
    /\ calls = <<>>
    /\ tasks = <<>>
    /\ exited = NoProcess

Next ==
    \/ BuildStart
    \/ \E t \in 1..Len(tasks) : BuildStartResume(t)
    \/ \E rc \in ResolveCalls : ResolveId(rc[1], rc[2])
    \/ \E t \in 1..Len(tasks) : ResolveIdResume(t)
    \/ \E id \in LoadIds : Load(id)
    \/ \E t \in 1..Len(tasks) : LoadResume(t)
    \/ \E t \in 1..Len(tasks), content \in Contents : LoadRead(t, content)
    \/ \E t \in 1..Len(tasks) : LoadReadFails(t)
    \/ \E p \in 1..Len(promises), out \in Outcomes : Settle(p, out)

Spec == Init /\ [][Next]_vars

\* every external process ends (command.output() settles), and every hook
\* suspended on a settled promise is resumed by the event loop; the host
\* need not call any hook
Fairness ==
    /\ \A p \in 1..(MaxTasks + MaxTasks) :
          WF_vars(p \in 1..Len(promises) /\ \E out \in Outcomes : Settle(p, out))
    /\ \A t \in 1..MaxTasks :
          /\ WF_vars(BuildStartResume(t))
          /\ WF_vars(ResolveIdResume(t))
          /\ WF_vars(LoadResume(t))

SpecLive == Init /\ [][Next]_vars /\ Fairness

(***************************************************************************)
(* The loader on a module of every media type: the engine is given a seed  *)
(* report with one remote module, of any media type tag, and the           *)
(* discovery service reports that same module.                             *)
(***************************************************************************)
\* the enumerated tags and a tag the enumeration does not know
MediaTags == DenoMediaType \cup {"Bogus"}

ModuleOfKind(m) == EsmRecord(HttpsB, LocalL, m)

ReportOfKind(m) == [redirects |-> {}, modules |-> <<ModuleOfKind(m)>>]

LoadSeeds == { Seed(ReportOfKind(m)) : m \in MediaTags }

\* what the local artifact can contain
LoadContents == { <<"{", "}">>, <<"x">> }

\* the process cannot be run, or prints the report of the module
LoadOutcomes(info) ==
    { [spawned |-> FALSE, exit |-> 0, json |-> FALSE, info |-> info],
      [spawned |-> TRUE, exit |-> 0, json |-> TRUE, info |-> info] }

InitLoad ==
    /\ resolveDenoInfoCache = EmptyCache
    /\ resolvePromises = [k \in Keys |-> 0]
    /\ resolveModuleSpecifierCache = [k \in ImKeys |-> ImUndefined]
    /\ importMapCalls = [k \in ImKeys |-> 0]
    /\ entryPoints = <<>>
    /\ denoInfoCache \in LoadSeeds
    /\ importMap = "mapped"
    /\ promises = <<>>
    /\ calls = <<>>
    /\ tasks = <<>>
    /\ exited = NoProcess

NextLoad ==
    \/ BuildStart
    \/ \E id \in LoadIds : Load(id)
    \/ \E t \in 1..Len(tasks) : LoadResume(t)
    \/ \E t \in 1..Len(tasks), content \in LoadContents : LoadRead(t, content)
    \/ \E t \in 1..Len(tasks) : LoadReadFails(t)
    \/ \E p \in 1..Len(promises), out \in LoadOutcomes(denoInfoCache.info) :
            Settle(p, out)

SpecLoad == InitLoad /\ [][NextLoad]_vars

(***************************************************************************)
(* The dispatcher on specifiers of every scheme, relative specifiers and   *)
(* bare specifiers, under each import map.                                 *)
(***************************************************************************)
HttpB == <<"h", "t", "t", "p", ":", "/", "/", "b", "/">>
PathD == <<"/", "d">>

\* the calls of resolveId the host makes: <<specifier, importer>>
DispatchCalls ==
    { <<NodeX, Undefined>>, <<FileC, Undefined>>, <<JsrA, Undefined>>,
      <<NpmP, Undefined>>, <<HttpsB, Undefined>>, <<HttpB, Undefined>>,
      <<BareL, Undefined>>, <<BareL, FileD>>, <<RelC, Undefined>>,
      <<RelC, FileD>>, <<RelC, PathD>>, <<RelC, VendorM>> }

DispatchKeys ==
    { <<RewriteRelative(rc[1], rc[2]), rc[2]>> : rc \in DispatchCalls }

InitDispatch ==
    /\ resolveDenoInfoCache = EmptyCache
    /\ resolvePromises = [k \in Keys |-> 0]
    /\ resolveModuleSpecifierCache = [k \in DispatchKeys |-> ImUndefined]
    /\ importMapCalls = [k \in DispatchKeys |-> 0]
    /\ entryPoints = <<>>
    /\ denoInfoCache \in SeedChoices
    /\ importMap \in ImportMapChoices
    /\ promises = <<>>
    /\ calls = <<>>
    /\ tasks = <<>>
    /\ exited = NoProcess

NextDispatch ==
    \/ BuildStart
    \/ \E rc \in DispatchCalls : ResolveId(rc[1], rc[2])
    \/ \E t \in 1..Len(tasks) : ResolveIdResume(t)
    \/ \E t \in 1..Len(tasks), res \in HostResolutions : ResolveIdHost(t, res)
    \/ \E p \in 1..Len(promises), out \in Outcomes : Settle(p, out)

SpecDispatch == InitDispatch /\ [][NextDispatch]_vars

(***************************************************************************)
(* The start hook on each list of entry points, with resolve requests      *)
(* running beside it.                                                      *)
(***************************************************************************)
StartEntryPoints == { <<JsrA, HttpsB>>, <<HttpsB, JsrA>>, <<HttpsB>>, <<FileC>> }

InitStart ==
    /\ resolveDenoInfoCache = EmptyCache
    /\ resolvePromises = [k \in Keys |-> 0]
    /\ resolveModuleSpecifierCache = [k \in ImKeys |-> ImUndefined]
    /\ importMapCalls = [k \in ImKeys |-> 0]
    /\ entryPoints \in StartEntryPoints
    /\ denoInfoCache \in SeedChoices
    /\ importMap = "mapped"
    /\ promises = <<>>
    /\ calls = <<>>
    /\ tasks = <<>>
    /\ exited = NoProcess

NextStart ==
    \/ BuildStart
    \/ \E t \in 1..Len(tasks) : BuildStartResume(t)
    \/ \E rc \in ResolveCalls : ResolveId(rc[1], rc[2])
    \/ \E t \in 1..Len(tasks) : ResolveIdResume(t)
    \/ \E p \in 1..Len(promises), out \in Outcomes : Settle(p, out)

SpecStart == InitStart /\ [][NextStart]_vars

(***************************************************************************)
(* Properties.                                                             *)
(***************************************************************************)
CallIds == 1..Len(calls)
PromiseIds == 1..Len(promises)
TaskIds == 1..Len(tasks)

PromiseOf(c) == promises[calls[c].promise]

\* the entry the projection builds from a module record
EntryOf(details) ==
    Entry(details.local, details.specifier, mapMediaType(details.mediaType))

\* the typed module records of a report
TypedModules(info) ==
    { info.modules[i] : i \in { j \in 1..Len(info.modules) :
                                  IsTypedModule(info.modules[j]) } }

\* the specifiers a report covers: its typed modules and their redirect sources
CoveredSpecifiers(info) ==
    UNION { {d.specifier} \cup { r[1] : r \in { q \in info.redirects :
                                                  q[2] = d.specifier } } :
            d \in TypedModules(info) }

\* the keys the projection of a report writes
CoveredKeys(info) ==
    UNION { KeysOf(d, info.redirects) : d \in TypedModules(info) }

\* the start hook had been called when call c was issued
AfterBuildStart(c) ==
    \E t \in TaskIds : t <= calls[c].task /\ tasks[t].hook = "buildStart"

\* C1: calls of denoResolve for one specifier that miss the cache while a
\* computation for it is unsettled share that one computation (no second
\* one is started for the specifier), and the calls that share a
\* computation are handed the same entry, or the same failure.
C1_ConcurrentDedup ==
    /\ \A p1, p2 \in PromiseIds :
          ( /\ promises[p1].specifier = promises[p2].specifier
            /\ promises[p1].state = "pending"
            /\ promises[p2].state = "pending" ) => p1 = p2
    /\ \A c1, c2 \in CallIds :
          ( /\ calls[c1].specifier = calls[c2].specifier
            /\ calls[c1].how # "hit"
            /\ calls[c2].how # "hit" )
          => /\ ( PromiseOf(c1).state = "pending" /\ PromiseOf(c2).state = "pending" )
                    => calls[c1].promise = calls[c2].promise
             /\ ( /\ calls[c1].promise = calls[c2].promise
                  /\ calls[c1].delivered
                  /\ calls[c2].delivered )
                    => /\ calls[c1].got = calls[c2].got
                       /\ calls[c1].err = calls[c2].err
                       /\ calls[c1].got = PromiseOf(c1).value

\* two callers of one computation have both been handed its entry
C1_Witness ==
    \E c1, c2 \in CallIds :
        /\ calls[c1].how = "started"
        /\ calls[c2].how = "joined"
        /\ calls[c1].promise = calls[c2].promise
        /\ calls[c1].delivered /\ calls[c2].delivered
        /\ calls[c1].got.present /\ calls[c2].got = calls[c1].got

\* C2 as stated: over the whole run at most one discovery invocation is
\* ever started for one specifier.
C2_AtMostOneEver ==
    \A p1, p2 \in PromiseIds :
        promises[p1].specifier = promises[p2].specifier => p1 = p2

\* C2 as amended: a further discovery invocation for a specifier is started
\* only after every earlier one for it has failed; so at most one is
\* unsettled at a time, and none is started after one has succeeded.
C2_OneAtATime ==
    \A p1, p2 \in PromiseIds :
        ( p1 < p2 /\ promises[p1].specifier = promises[p2].specifier )
        => promises[p1].state = "rejected"

\* a second invocation for a specifier, after the first failed for want of
\* an entry in its report
C2_Witness ==
    \E p1, p2 \in PromiseIds :
        /\ p1 < p2
        /\ promises[p1].specifier = promises[p2].specifier
        /\ promises[p1].error = "CacheConsistencyError"

\* C3: a call of denoResolve(S) issued after an earlier call for S has
\* handed an entry to its caller is a cache hit (no further discovery
\* invocation) and returns an entry equal to that earlier one.
C3_Idempotent ==
    \A c1, c2 \in CallIds :
        c1 \in calls[c2].after
        => /\ calls[c2].how = "hit"
           /\ calls[c2].value = calls[c1].got

\* C4: right after a report with a module record B and a redirect A -> B has
\* been projected, the cache holds the entry built from B under both A and
\* B; and once the seed report has been projected, every later call of
\* denoResolve(A) for a redirect A -> B of the seed is a cache hit that
\* returns the entry built from B.
C4_RedirectPropagation ==
    /\ ( exited.promise # 0 /\ exited.spawned /\ exited.json )
       => \A d \in TypedModules(exited.info) :
            \A r \in { q \in exited.info.redirects : q[2] = d.specifier } :
                /\ resolveDenoInfoCache[r[1]] = EntryOf(d)
                /\ resolveDenoInfoCache[d.specifier] = EntryOf(d)
    /\ \A c \in CallIds :
         ( denoInfoCache.present /\ AfterBuildStart(c) )
         => \A d \in TypedModules(denoInfoCache.info) :
              \A r \in { q \in denoInfoCache.info.redirects :
                            q[2] = d.specifier /\ q[1] = calls[c].specifier } :
                  /\ calls[c].how = "hit"
                  /\ calls[c].value = EntryOf(d)

\* C5: whenever the external process cannot be run, exits non-zero or prints
\* something that is not JSON, the computation fails with DiscoveryError
\* and the cache is left as it was.
C5_DiscoveryError ==
    [][ ( /\ exited'.promise # 0
          /\ ( ~exited'.spawned \/ exited'.exit # 0 \/ ~exited'.json ) )
        => /\ promises'[exited'.promise].state = "rejected"
           /\ promises'[exited'.promise].error = "DiscoveryError"
           /\ resolveDenoInfoCache' = resolveDenoInfoCache ]_vars

\* a process that exited with a non-zero code and printed a report: the
\* report has been projected and the computation has returned an entry
C5_Witness ==
    /\ exited.promise # 0
    /\ exited.spawned /\ exited.exit # 0 /\ exited.json
    /\ promises[exited.promise].state = "fulfilled"
    /\ resolveDenoInfoCache[promises[exited.promise].specifier].present

\* C6: when the discovery fails, the computation is rejected at once (it is
\* not run again), every caller of denoResolve that shared it is handed
\* that failure and fails with it, and every computation was started by
\* exactly one call of denoResolve.
C6_FailureShared ==
    /\ ( exited.promise # 0 /\ denoInfoFails(exited) )
       => /\ promises[exited.promise].state = "rejected"
          /\ promises[exited.promise].error = "DiscoveryError"
    /\ \A c \in CallIds :
         ( calls[c].how # "hit" /\ calls[c].delivered
           /\ PromiseOf(c).state = "rejected" )
         => /\ calls[c].err = PromiseOf(c).error
            /\ ~calls[c].got.present
            /\ tasks[calls[c].task].pc = "failed"
            /\ tasks[calls[c].task].error = PromiseOf(c).error
    /\ \A p \in PromiseIds :
         Cardinality({ c \in CallIds : calls[c].how = "started"
                                       /\ calls[c].promise = p }) = 1

\* the starter and a second caller have both been handed the DiscoveryError
C6_Witness ==
    \E c1, c2 \in CallIds :
        /\ calls[c1].how = "started"
        /\ calls[c2].how = "joined"
        /\ calls[c1].promise = calls[c2].promise
        /\ calls[c1].delivered /\ calls[c2].delivered
        /\ calls[c1].err = "DiscoveryError"
        /\ calls[c2].err = "DiscoveryError"

\* C7: when the process has printed a report but the cache, after the
\* projection, has no entry under the requested specifier, the computation
\* is rejected with CacheConsistencyError and without a value, no
\* computation for the specifier is left unsettled, and every caller that
\* shared it fails with CacheConsistencyError.
C7_ConsistencyError ==
    /\ ( /\ exited.promise # 0
         /\ exited.spawned /\ exited.json
         /\ ~resolveDenoInfoCache[promises[exited.promise].specifier].present )
       => /\ promises[exited.promise].state = "rejected"
          /\ promises[exited.promise].error = "CacheConsistencyError"
          /\ promises[exited.promise].value = NoEntry
          /\ resolvePromises[promises[exited.promise].specifier] = 0
          /\ \A q \in PromiseIds :
                promises[q].specifier = promises[exited.promise].specifier
                => promises[q].state # "pending"
    /\ \A c \in CallIds :
         ( calls[c].how # "hit" /\ calls[c].delivered
           /\ PromiseOf(c).error = "CacheConsistencyError" )
         => /\ calls[c].err = "CacheConsistencyError"
            /\ ~calls[c].got.present
            /\ tasks[calls[c].task].pc = "failed"
            /\ tasks[calls[c].task].error = "CacheConsistencyError"

\* a report without the requested specifier has just been projected, with
\* two callers waiting for it
C7_Witness ==
    /\ exited.promise # 0
    /\ exited.spawned /\ exited.json
    /\ ~resolveDenoInfoCache[promises[exited.promise].specifier].present
    /\ \E c1, c2 \in CallIds :
          /\ c1 # c2
          /\ calls[c1].promise = exited.promise
          /\ calls[c2].promise = exited.promise

\* C8 as stated: with a seed report supplied at construction, every call of
\* denoResolve for a specifier the seed covers is a cache hit.
C8_SeededAtConstruction ==
    \A c \in CallIds :
        ( /\ denoInfoCache.present
          /\ calls[c].specifier \in CoveredSpecifiers(denoInfoCache.info) )
        => calls[c].how = "hit"

\* C8 as amended: the seed report is projected by the start hook; once the
\* start hook has been called, every call of denoResolve for a key the
\* projection of the seed writes is a cache hit.
C8_SeededAtStart ==
    \A c \in CallIds :
        ( /\ denoInfoCache.present
          /\ AfterBuildStart(c)
          /\ calls[c].specifier \in CoveredKeys(denoInfoCache.info) )
        => calls[c].how = "hit"

\* after the start hook, a resolve or load request for a redirect source of
\* the seed hits the cache, and no discovery has ever been started
C8_Witness ==
    \E c \in CallIds :
        /\ denoInfoCache.present
        /\ AfterBuildStart(c)
        /\ tasks[calls[c].task].hook # "buildStart"
        /\ calls[c].specifier = JsrA
        /\ calls[c].how = "hit"
        /\ promises = <<>>

\* C9 as stated: a load of an id that resolveId had returned through its
\* jsr: or its http(s): branch finds the id in the cache.
C9_LoadIsHit ==
    \A t \in TaskIds :
        ( /\ tasks[t].hook = "load"
          /\ tasks[t].branch = "handled"
          /\ tasks[t].prior \cap {"jsr", "http"} # {} )
        => calls[tasks[t].call].how = "hit"

\* C9 as amended: a load of an id that resolveId had returned through its
\* jsr: branch (the redirected specifier of the entry) finds the id in the
\* cache and starts no discovery invocation.
C9_LoadAfterJsrIsHit ==
    \A t \in TaskIds :
        ( /\ tasks[t].hook = "load"
          /\ tasks[t].branch = "handled"
          /\ "jsr" \in tasks[t].prior )
        => calls[tasks[t].call].how = "hit"

\* a load of the id the jsr: branch returned, with one discovery in all
C9_Witness ==
    \E t \in TaskIds :
        /\ tasks[t].hook = "load"
        /\ tasks[t].prior = {"jsr"}
        /\ calls[tasks[t].call].how = "hit"
        /\ Len(promises) = 1

\* C10: after load(id) has failed with MissingArtifactError, every later
\* call of denoResolve(id) is a cache hit that returns the entry load was
\* handed.
C10_LoadFailureKeepsEntry ==
    \A c1, c2 \in CallIds :
        ( /\ c1 \in calls[c2].after
          /\ tasks[calls[c1].task].hook = "load"
          /\ tasks[calls[c1].task].error = "MissingArtifactError" )
        => /\ calls[c2].how = "hit"
           /\ calls[c2].value = calls[c1].got

\* the media type tag of the module of the seed report
SeedTag == denoInfoCache.info.modules[1].mediaType

\* C11: a load that has returned gives, for an entry of kind json,
\* "export default " followed by the text it read and the kind js, and for
\* an entry of any other kind the text it read and the entry's kind.
C11_LoadCode ==
    \A t \in TaskIds :
        ( tasks[t].hook = "load" /\ tasks[t].result.kind = "loaded" )
        => LET cached == calls[tasks[t].call].got
           IN  /\ cached.moduleType = mapMediaType(SeedTag)
               /\ cached.moduleType = "json"
                    => /\ tasks[t].result.code = ExportDefault \o tasks[t].read
                       /\ tasks[t].result.moduleType = "js"
               /\ cached.moduleType # "json"
                    => /\ tasks[t].result.code = tasks[t].read
                       /\ tasks[t].result.moduleType = cached.moduleType

\* a json artifact "{}" has been loaded as the script "export default {}"
C11_Witness ==
    \E t \in TaskIds :
        /\ tasks[t].hook = "load"
        /\ tasks[t].result.kind = "loaded"
        /\ calls[tasks[t].call].got.moduleType = "json"
        /\ tasks[t].read = <<"{", "}">>
        /\ tasks[t].result.code = ExportDefault \o <<"{", "}">>
        /\ tasks[t].result.moduleType = "js"

\* C12: when resolveId is called, with m the specifier after the relative
\* rewrite and the import map: denoResolve is called (and the in-flight
\* map or the promises change) only if m starts with "jsr:", and then it
\* is called for m; the cache is not written; for "node:" the hook returns
\* {id: m, external: true}, for "file:" the path of m with external false,
\* for "http:" and "https:" {id: m, external: false}, all at once and with
\* the cache, the in-flight map and the calls of denoResolve left as they
\* are; for an m of no scheme it returns undefined.
C12_Dispatch ==
    [][ ( /\ Len(tasks') = Len(tasks) + 1
          /\ tasks'[Len(tasks')].hook = "resolveId" )
        => LET t == tasks'[Len(tasks')]
               m == MaybeResolved(resolveModuleSpecifierCache', t.specifier,
                                  t.importer, importMap)
               remote == StartsWith(m, Http) \/ StartsWith(m, Https)
           IN  /\ ( calls' # calls \/ promises' # promises
                                   \/ resolvePromises' # resolvePromises )
                    => StartsWith(m, Jsr)
               /\ resolveDenoInfoCache' = resolveDenoInfoCache
               /\ StartsWith(m, Jsr)
                    => /\ Len(calls') = Len(calls) + 1
                       /\ calls'[Len(calls')].specifier = m
                       /\ t.pc = "await"
               /\ StartsWith(m, Node)
                    => t.pc = "done" /\ t.result = Resolved(m, TRUE)
               /\ StartsWith(m, File)
                    => /\ t.pc = "done"
                       /\ t.result = Resolved(SubSeq(m, Len(FilePrefix) + 1, Len(m)), FALSE)
               /\ remote
                    => t.pc = "done" /\ t.result = Resolved(m, FALSE)
               /\ ~( StartsWith(m, Jsr) \/ StartsWith(m, Node) \/ StartsWith(m, File)
                      \/ StartsWith(m, Npm) \/ remote )
                    => t.pc = "done" /\ t.result = ReturnedUndefined ]_vars

\* a relative specifier rewritten to a file URL has been returned as a path
\* and a remote specifier as it is, and denoResolve was never called
C12_Witness ==
    /\ calls = <<>>
    /\ promises = <<>>
    /\ \E t1, t2 \in TaskIds :
          /\ tasks[t1].hook = "resolveId"
          /\ tasks[t1].specifier = RelC
          /\ tasks[t1].result = Resolved(<<"/", "c">>, FALSE)
          /\ tasks[t2].hook = "resolveId"
          /\ tasks[t2].result = Resolved(HttpsB, FALSE)

\* the calls of denoResolve made by task t
CallsOf(t) == { c \in CallIds : calls[c].task = t }

\* what C13 says of the start hook whatever "covered" means: when it has
\* returned, every entry point has a cache entry; its calls of denoResolve
\* are for the entry points in their order, each made after the one before
\* has returned, so at most one computation it started is unsettled; an
\* entry point for which an earlier entry point's call returned an entry
\* (the record of its report) is a cache hit
StartHookSequential(t) ==
    /\ tasks[t].pc = "done"
         => \A i \in 1..Len(entryPoints) :
                resolveDenoInfoCache[entryPoints[i]].present
    /\ \A c \in CallsOf(t) :
         /\ calls[c].specifier =
                entryPoints[Cardinality({ d \in CallsOf(t) : d <= c })]
         /\ \A d \in CallsOf(t) :
                d < c => /\ calls[d].delivered
                         /\ calls[d].got.present
                         /\ calls[d].got.redirected = calls[c].specifier
                                => calls[c].how = "hit"
    /\ Cardinality({ c \in CallsOf(t) : /\ calls[c].how = "started"
                                        /\ PromiseOf(c).state = "pending" }) <= 1

\* C13 as stated: the above, and an entry point that is the specifier of a
\* module record of the seed report, or a redirect source of one, starts no
\* discovery invocation.
C13_StartHook ==
    \A t \in TaskIds :
        tasks[t].hook = "buildStart"
        => /\ StartHookSequential(t)
           /\ \A c \in CallsOf(t) :
                ( /\ denoInfoCache.present
                  /\ calls[c].specifier \in CoveredSpecifiers(denoInfoCache.info) )
                => calls[c].how = "hit"

\* the table of C14, tag by tag
KindTable ==
    [ JavaScript |-> "js", Mjs |-> "js", Cjs |-> "js", JSX |-> "jsx",
      TypeScript |-> "ts", Mts |-> "ts", Cts |-> "ts", Dts |-> "ts",
      Dmts |-> "ts", Dcts |-> "ts", TSX |-> "tsx", Json |-> "json",
      Wasm |-> "binary", TsBuildInfo |-> "text", SourceMap |-> "text",
      Unknown |-> "empty" ]

\* C14: the enumeration has the 16 tags of the table; every entry the
\* projection has built from a module record has the module kind the table
\* gives for the record's media type tag, and the empty kind when the tag
\* is none of the 16; the mapper gives a module kind for every tag.
C14_MediaTypeTable ==
    /\ DOMAIN KindTable = DenoMediaType
    /\ Cardinality(DenoMediaType) = Cardinality(DOMAIN KindTable)
    /\ \A m \in MediaTags : mapMediaType(m) \in ModuleType
    /\ \A k \in Keys :
         resolveDenoInfoCache[k].present
         => /\ resolveDenoInfoCache[k].moduleType \in ModuleType
            /\ resolveDenoInfoCache[k].moduleType =
                  IF SeedTag \in DOMAIN KindTable THEN KindTable[SeedTag]
                  ELSE "empty"

\* a module with a tag outside the enumeration has been projected and
\* handed to load with the empty kind
C14_Witness ==
    /\ SeedTag \notin DenoMediaType
    /\ \E c \in CallIds :
          /\ calls[c].delivered
          /\ calls[c].got.present
          /\ calls[c].got.moduleType = "empty"

\* the unsettled computations for specifier k
Unsettled(k) ==
    { p \in PromiseIds : promises[p].specifier = k /\ promises[p].state = "pending" }

\* C15: in every reachable state, for every specifier at most one
\* computation is unsettled, and the in-flight map has an entry for the
\* specifier exactly when one is: the entry is that computation.
C15_InflightInvariant ==
    \A k \in Keys :
        /\ Cardinality(Unsettled(k)) <= 1
        /\ resolvePromises[k] # 0 <=> Unsettled(k) # {}
        /\ resolvePromises[k] # 0 => Unsettled(k) = {resolvePromises[k]}

\* two requests share the one unsettled computation for a specifier, which
\* is the entry of the in-flight map
C15_Witness ==
    \E k \in Keys, c1, c2 \in CallIds :
        /\ resolvePromises[k] # 0
        /\ c1 # c2
        /\ calls[c1].promise = resolvePromises[k]
        /\ calls[c2].promise = resolvePromises[k]
        /\ calls[c2].how = "joined"

\* the in-flight map is empty
NoInflight == \A k \in Keys : resolvePromises[k] = 0

\* C16: the step that settles a computation, by success or by failure,
\* removes the in-flight entry of its specifier; a call of denoResolve
\* joins a computation only if it is unsettled, so a call for a specifier
\* without a cache entry whose computations have all settled starts a new
\* one; and, every process ending, every call of denoResolve is eventually
\* resumed with an entry or a failure and the in-flight map is empty again
\* and again.
C16_InflightRemoved ==
    /\ [][ /\ \A p \in PromiseIds :
                ( promises[p].state = "pending" /\ promises'[p].state # "pending" )
                => resolvePromises'[promises[p].specifier] = 0
           /\ ( Len(calls') = Len(calls) + 1 )
                => LET c == calls'[Len(calls')]
                   IN  /\ c.how = "joined"
                            => promises[c.promise].state = "pending"
                       /\ ( /\ ~resolveDenoInfoCache'[c.specifier].present
                            /\ Unsettled(c.specifier) = {} )
                            => c.how = "started" ]_vars
    /\ \A c \in 1..(MaxTasks + MaxTasks) :
          ( Len(calls) >= c ) ~> ( Len(calls) >= c /\ calls[c].delivered )
    /\ []<>NoInflight

\* a request for a specifier whose first computation failed has started a
\* second one, and has been handed its entry
C16_Witness ==
    \E c1, c2 \in CallIds :
        /\ c1 < c2
        /\ calls[c1].specifier = calls[c2].specifier
        /\ calls[c1].how = "started" /\ calls[c2].how = "started"
        /\ calls[c1].delivered /\ calls[c1].err # ""
        /\ calls[c2].delivered /\ calls[c2].got.present
        /\ NoInflight

\* C17: once the cache holds an entry under a key, no step changes or
\* removes the entry under that key.
C17_WriteOnce ==
    [][ \A k \in Keys :
            resolveDenoInfoCache[k].present
            => resolveDenoInfoCache'[k] = resolveDenoInfoCache[k] ]_vars

\* the cache after the whole of a report has been projected on `cache`:
\* under each key the entry of the last typed record that is stored under
\* it, under every other key what was there
Projected(cache, info) ==
    [ k \in Keys |->
        LET at == { j \in 1..Len(info.modules) :
                      /\ IsTypedModule(info.modules[j])
                      /\ k \in KeysOf(info.modules[j], info.redirects) }
        IN  IF at = {} THEN cache[k] ELSE EntryOf(info.modules[Max(at)]) ]

\* C18: the cache changes only in the step in which a process has ended
\* with a report, or in which the start hook is called with a seed report,
\* and in that one step it becomes the cache with the whole report
\* projected; the computation settles in that same step, with the entry of
\* the projected cache; a step in which the discovery fails with
\* DiscoveryError leaves the cache as it was.
C18_AtomicProjection ==
    [][ LET received == exited'.promise # 0 /\ exited'.spawned /\ exited'.json
            seeded == /\ Len(tasks') = Len(tasks) + 1
                      /\ tasks'[Len(tasks')].hook = "buildStart"
                      /\ denoInfoCache.present
        IN  /\ resolveDenoInfoCache' # resolveDenoInfoCache => received \/ seeded
            /\ received
                 => /\ resolveDenoInfoCache' =
                          Projected(resolveDenoInfoCache, exited'.info)
                    /\ promises'[exited'.promise].state # "pending"
                    /\ promises'[exited'.promise].value =
                          resolveDenoInfoCache'[promises'[exited'.promise].specifier]
            /\ seeded
                 => resolveDenoInfoCache' =
                        Projected(resolveDenoInfoCache, denoInfoCache.info)
            /\ ( /\ exited'.promise # 0
                 /\ promises'[exited'.promise].error = "DiscoveryError" )
                 => resolveDenoInfoCache' = resolveDenoInfoCache ]_vars

\* a report with two module records and a redirect has just been projected:
\* the three keys it writes are all present, and the computation is settled
C18_Witness ==
    /\ exited.promise # 0
    /\ exited.spawned /\ exited.json
    /\ Len(exited.info.modules) = 2
    /\ Cardinality(CoveredKeys(exited.info)) = 3
    /\ \A k \in CoveredKeys(exited.info) : resolveDenoInfoCache[k].present
    /\ promises[exited.promise].state = "fulfilled"

\* what the import-map function gives when called afresh for a pair:
\* null when it throws
Afresh(id, importer) ==
    LET r == resolveModuleSpecifier(id, importMap, ImporterUrl(importer))
    IN  IF r.st = "throws" THEN ImNull ELSE r

\* the specifier resolveId would dispatch on without the cache
DispatchedAfresh(specifier, importer) ==
    LET id == RewriteRelative(specifier, importer)
    IN  IF UsesImportMap(id) /\ Afresh(id, importer).st = "string"
        THEN Afresh(id, importer).value ELSE id

\* C19: the import-map function is called at most once for each pair of
\* identifier and importer, also for a pair whose result is null; a pair
\* is cached exactly when the function has been called for it, with the
\* value a fresh call gives; and every call of resolveId has taken the
\* branch it would take with a fresh call of the function.
C19_ImportMapCache ==
    /\ \A k \in DispatchKeys :
         /\ importMapCalls[k] <= 1
         /\ importMapCalls[k] = 0 <=> resolveModuleSpecifierCache[k] = ImUndefined
         /\ resolveModuleSpecifierCache[k] # ImUndefined
              => resolveModuleSpecifierCache[k] = Afresh(k[1], k[2])
    /\ \A t \in TaskIds :
         tasks[t].hook = "resolveId"
         => tasks[t].branch =
              Scheme(DispatchedAfresh(tasks[t].specifier, tasks[t].importer))

\* two calls of resolveId for a bare identifier the import map does not
\* map: the function was called once, and null is cached
C19_Witness ==
    /\ importMapCalls[<<BareL, Undefined>>] = 1
    /\ resolveModuleSpecifierCache[<<BareL, Undefined>>] = ImNull
    /\ \E t1, t2 \in TaskIds :
          /\ t1 # t2
          /\ tasks[t1].hook = "resolveId" /\ tasks[t1].specifier = BareL
          /\ tasks[t1].importer = Undefined
          /\ tasks[t2].hook = "resolveId" /\ tasks[t2].specifier = BareL
          /\ tasks[t2].importer = Undefined
          /\ tasks[t1].result = ReturnedUndefined
          /\ tasks[t2].result = ReturnedUndefined

\* C20: no key of the cache that holds an entry begins with "file://"; a
\* call of denoResolve for a specifier that begins with "file://" is never
\* a cache hit and never returns an entry; when the process of its
\* computation has ended with a report, whatever the report holds, the
\* computation is rejected with CacheConsistencyError and leaves no
\* in-flight entry, so that a later request starts another invocation.
C20_FileKeyMismatch ==
    /\ \A k \in Keys :
         resolveDenoInfoCache[k].present => ~StartsWith(k, FilePrefix)
    /\ \A c \in CallIds :
         StartsWith(calls[c].specifier, FilePrefix)
         => /\ calls[c].how # "hit"
            /\ ~calls[c].got.present
            /\ calls[c].delivered => calls[c].err # ""
            /\ PromiseOf(c).state # "fulfilled"
    /\ ( /\ exited.promise # 0
         /\ exited.spawned /\ exited.json
         /\ StartsWith(promises[exited.promise].specifier, FilePrefix) )
       => /\ promises[exited.promise].state = "rejected"
          /\ promises[exited.promise].error = "CacheConsistencyError"
          /\ resolvePromises[promises[exited.promise].specifier] = 0

\* the second discovery invocation for file:///c has ended with a report
\* that holds a record for file:///c, stored under "/c": like the first,
\* it is rejected with CacheConsistencyError
C20_Witness ==
    /\ Len(promises) = 2
    /\ promises[1].specifier = FileC
    /\ promises[1].error = "CacheConsistencyError"
    /\ exited.promise = 2
    /\ promises[2].specifier = FileC
    /\ exited.spawned /\ exited.json
    /\ exited.info.modules = <<ModuleC>>
    /\ resolveDenoInfoCache[StripFile(FileC)] = EntryOf(ModuleC)
    /\ promises[2].error = "CacheConsistencyError"

====
